---- MODULE Spec2Model ----
(***************************************************************************)
(* Model of the haki http package: the instrumented responseWriter, the    *)
(* decorator chain built by Wrap, and the Error, Log and Audit decorators. *)
(* A run is one request travelling down the chain to the base handler and *)
(* back up; every step is the code of one function between two calls.     *)
(***************************************************************************)
EXTENDS Integers, Sequences, FiniteSets, TLC

\* ---------------------------------------------------------------- bounds
MaxChain == 3          \* longest decorator list handed to Wrap
MaxOps == 1            \* sink operations of the base handler below a chain
MaxRwOps == 3          \* sink operations of the base handler in SpecRW
MaxIoOps == 2          \* negotiation calls of the base handler in SpecIO

\* ------------------------------------------------------------- constants
StatusOK == 200
StatusInternalServerError == 500

AllReqs == {1, 2}
Wrappers == {"Error", "Log", "Audit"}
HandlerCodes == {StatusOK, 404}
boom == <<"b", "o", "o", "m">>
Payload == <<"y", "z">>
bang == <<"n", "o">>
Messages == {boom, bang}
WriteOutcomes == {"ok", "short"}
IOErr == <<"i", "o">>
NoErr == <<>>
UUIDs == <<"u1", "u2", "u3", "u4", "u5", "u6", "u7", "u8", "u9", "u10">>
InboundCIDs == {"", "c1"}

\* header values are sequences of pieces; the pieces stand for substrings
JSONContentType == <<"application/json">>
TextPlain == <<"text/plain", "; charset=utf-8">>
\* the values a Content-Type or Accept header may hold; <<>> is an absent header
HeaderValues == {<<>>, JSONContentType, <<"text/plain">>, TextPlain,
                 <<"application/json", "; charset=utf-8">>,
                 <<"text/plain", ", ", "application/json">>}
Doc == <<"{", "a1", "}">>
Bodies == {<<>>, Doc, <<"{", "a1">>}
Results == {"doc", "chan"}
ErrInvalidContentType == <<<<"c", "t">>>>
ErrInvalidAccept == <<<<"a", "c">>>>
ErrEOF == <<<<"E", "O", "F">>>>
ErrUnexpectedEOF == <<<<"u", "E", "O", "F">>>>
ErrUnsupportedType == <<<<"u", "t">>>>

RequestIDHeader == "RequestIDHeader"
RequestContextHeader == "RequestContextHeader"
ContentTypeHeader == "Content-Type"
NoSniffHeader == "X-Content-Type-Options"
HeaderNames == {RequestIDHeader, RequestContextHeader, ContentTypeHeader, NoSniffHeader}

ContextKeys == [TID |-> "TID", CID |-> "CID", LOG |-> "LOG", TOKEN |-> "TOKEN",
                IDENTITY |-> "IDENTITY", AUDITOR |-> "AUDITOR"]
AllKeys == {"tid", "TID", "CID", "LOG", "TOKEN", "IDENTITY", "AUDITOR"}

VARIABLES
    pc,        \* per request: "init", "ready", "run", "done", "off"
    wrappers,  \* per request: the decorator list given to Wrap
    chain,     \* per request: the composed handler, outermost layer first
    pos,       \* per request: the layer that runs now (Len(chain)+1 = base handler)
    dir,       \* per request: "call" going inward, "ret" coming back
    err,       \* per request: the error the last returning handler returned
    wargs,     \* per request: the response writer each active call received
    rargs,     \* per request: the request-scoped storage each active call received
    locals,    \* per request: the local variables of each active decorator
    inbound,   \* per request: the inbound correlation-id header value
    sinks,     \* per request: the underlying response sink
    rws,       \* heap of responseWriter objects
    log,       \* the logging backend's events
    nextId,    \* the unique-id generator
    ops,       \* per request: sink operations the base handler may still perform
    hops,      \* per request: what the base handler did (history)
    trace,     \* per request: order in which the layers ran (history)
    objs,      \* heap of the Identity and Auditor objects
    reqs       \* per request: the negotiation headers, the body and its reader

vars == <<pc, wrappers, chain, pos, dir, err, wargs, rargs, locals, inbound,
          sinks, rws, log, nextId, ops, hops, trace, objs, reqs>>

\* ------------------------------------------------------- plain helpers
RECURSIVE SumSeq(_)
SumSeq(s) == IF s = <<>> THEN 0 ELSE Head(s) + SumSeq(Tail(s))

Front(s) == SubSeq(s, 1, Len(s) - 1)

\* strings.Contains
Contains(b, m) == \E i \in 1..(Len(b) - Len(m) + 1) : SubSeq(b, i, i + Len(m) - 1) = m

\* http.StatusText: the reason phrase of a code, "" for an unknown code
StatusText(c) ==
    CASE c = 200 -> "OK"
      [] c = 404 -> "Not Found"
      [] c = 500 -> "Internal Server Error"
      [] OTHER -> ""

\* ------------------------------------------------- request-scoped storage
EmptyCtx == [k \in AllKeys |-> <<>>]

set(r, key, val) == [r EXCEPT ![key] = <<val>>]

Identity == [Token |-> "tanonymous", ID |-> "uanonymous", Name |-> "User Anonymous"]

\* an Identity that is one package-level object handed to every request
sharedIdentity(heap) ==
    IF heap = <<>> THEN [objs |-> Append(heap, Identity), addr |-> 1]
    ELSE [objs |-> heap, addr |-> 1]

\* identity := &Identity{...}: a new object on the heap, and its address
newIdentity(heap) == [objs |-> Append(heap, Identity), addr |-> Len(heap) + 1]

\* auditor := &Auditor{...}: a new object holding the identity's address
newAuditor(heap, tid, cid, logger, identity) ==
    [objs |-> Append(heap, [TID |-> tid, CID |-> cid, Logger |-> logger,
                            Identity |-> identity]),
     addr |-> Len(heap) + 1]

\* a request that brings no negotiation header and no body
NoRequest == [ctype |-> <<>>, accept |-> <<>>, body |-> <<>>, consumed |-> 0,
              target |-> <<>>]

\* -------------------------------------------------------- the real sink
NewSink(fl) ==
    [status |-> 0, whCalls |-> <<>>, body |-> <<>>, writes |-> <<>>, werrs |-> 0,
     flusher |-> fl, flushes |-> 0, header |-> [h \in HeaderNames |-> <<>>],
     sent |-> <<>>]

SinkWriteHeader(sk, s) ==
    [sk EXCEPT !.whCalls = Append(@, s),
               !.status = IF @ = 0 THEN s ELSE @,
               !.sent = IF sk.status = 0 THEN <<sk.header>> ELSE @]

\* what the transport makes of a Write: it takes all of b, or it fails after
\* all but the last byte
WriteResult(b, o) ==
    IF o = "ok" THEN [n |-> Len(b), err |-> NoErr]
    ELSE [n |-> Len(b) - 1, err |-> <<IOErr>>]

SinkWrite(sk, b, res) ==
    [sk EXCEPT !.status = IF @ = 0 THEN StatusOK ELSE @,
               !.sent = IF sk.status = 0 THEN <<sk.header>> ELSE @,
               !.body = @ \o SubSeq(b, 1, res.n),
               !.writes = Append(@, b),
               !.werrs = IF res.err = NoErr THEN @ ELSE @ + 1]

SinkFlush(sk) ==
    [sk EXCEPT !.status = IF @ = 0 THEN StatusOK ELSE @,
               !.sent = IF sk.status = 0 THEN <<sk.header>> ELSE @,
               !.flushes = @ + 1]

\* --------------------------------------------------------- responseWriter
\* A writer reference is -q for the sink of request q, or an address in rws.
\* A store is the pair of everything a writer call can change.
Store(rw, sk) == [rws |-> rw, sinks |-> sk]

NewResponseWriter(w) == [status |-> 0, size |-> 0, under |-> w, calls |-> <<>>]

Written(S, ref) == S.rws[ref].status # 0

Status(S, ref) == S.rws[ref].status

Size(S, ref) == S.rws[ref].size

RECURSIVE RootSink(_, _)
RootSink(S, ref) == IF ref < 0 THEN -ref ELSE RootSink(S, S.rws[ref].under)

\* history: every method call a responseWriter received, in order; self marks
\* the WriteHeader(200) that Write and Flush make on their own writer
Call(op, arg, self) == [op |-> op, arg |-> arg, self |-> self]

Note(S, ref, c) == [S EXCEPT !.rws[ref].calls = Append(@, c)]

\* WriteHeader that keeps the first status it recorded, as the transport does
RECURSIVE WriteHeaderFirstWins(_, _, _, _)
WriteHeaderFirstWins(S, ref, s, self) ==
    IF ref < 0
    THEN [S EXCEPT !.sinks[-ref] = SinkWriteHeader(@, s)]
    ELSE LET S0 == Note(S, ref, Call("WriteHeader", s, self))
         IN  WriteHeaderFirstWins(
                 [S0 EXCEPT !.rws[ref].status = IF @ = 0 THEN s ELSE @],
                 S.rws[ref].under, s, FALSE)

RECURSIVE WriteHeaderFrom(_, _, _, _)
WriteHeaderFrom(S, ref, s, self) ==
    IF ref < 0
    THEN [S EXCEPT !.sinks[-ref] = SinkWriteHeader(@, s)]
    ELSE LET S0 == Note(S, ref, Call("WriteHeader", s, self))
         IN  WriteHeaderFrom([S0 EXCEPT !.rws[ref].status = s], S.rws[ref].under, s, FALSE)

WriteHeader(S, ref, s) == WriteHeaderFrom(S, ref, s, FALSE)

\* Write that forgets the bytes of a call that also returned an error
RECURSIVE WriteDropsFailedCount(_, _, _, _)
WriteDropsFailedCount(S, ref, b, o) ==
    IF ref < 0
    THEN LET res == WriteResult(b, o)
         IN  [S |-> [S EXCEPT !.sinks[-ref] = SinkWrite(@, b, res)],
              n |-> res.n, err |-> res.err]
    ELSE LET S1 == IF ~Written(S, ref) THEN WriteHeaderFrom(S, ref, StatusOK, TRUE) ELSE S
             R == WriteDropsFailedCount(S1, S.rws[ref].under, b, o)
             S2 == [R.S EXCEPT !.rws[ref].size = IF R.err = NoErr THEN @ + R.n ELSE @]
         IN  [S |-> Note(S2, ref, Call("Write", R.n, FALSE)), n |-> R.n, err |-> R.err]

\* Write that counts the bytes it was asked to write, not those accepted
RECURSIVE WriteCountsRequested(_, _, _, _)
WriteCountsRequested(S, ref, b, o) ==
    IF ref < 0
    THEN LET res == WriteResult(b, o)
         IN  [S |-> [S EXCEPT !.sinks[-ref] = SinkWrite(@, b, res)],
              n |-> res.n, err |-> res.err]
    ELSE LET S1 == IF ~Written(S, ref) THEN WriteHeaderFrom(S, ref, StatusOK, TRUE) ELSE S
             R == WriteCountsRequested(S1, S.rws[ref].under, b, o)
             S2 == [R.S EXCEPT !.rws[ref].size = @ + Len(b)]
         IN  [S |-> Note(S2, ref, Call("Write", R.n, FALSE)), n |-> R.n, err |-> R.err]

\* Write returns the store together with the (size, err) pair of the call;
\* o is the outcome of the transport's Write at the bottom
RECURSIVE Write(_, _, _, _)
Write(S, ref, b, o) ==
    IF ref < 0
    THEN LET res == WriteResult(b, o)
         IN  [S |-> [S EXCEPT !.sinks[-ref] = SinkWrite(@, b, res)],
              n |-> res.n, err |-> res.err]
    ELSE LET S1 == IF ~Written(S, ref) THEN WriteHeaderFrom(S, ref, StatusOK, TRUE) ELSE S
             R == Write(S1, S.rws[ref].under, b, o)
             S2 == [R.S EXCEPT !.rws[ref].size = @ + R.n]
         IN  [S |-> Note(S2, ref, Call("Write", R.n, FALSE)), n |-> R.n, err |-> R.err]

IsFlusher(S, ref) == IF ref < 0 THEN S.sinks[-ref].flusher ELSE TRUE

\* Flush that applies the default status whatever the underlying writer offers
RECURSIVE FlushAlwaysDefaults(_, _)
FlushAlwaysDefaults(S, ref) ==
    IF ref < 0
    THEN [S EXCEPT !.sinks[-ref] = SinkFlush(@)]
    ELSE LET S0 == Note(S, ref, Call("Flush", 0, FALSE))
             S1 == IF ~Written(S0, ref)
                   THEN WriteHeaderFrom(S0, ref, StatusOK, TRUE) ELSE S0
         IN  IF IsFlusher(S0, S.rws[ref].under)
             THEN FlushAlwaysDefaults(S1, S.rws[ref].under)
             ELSE S1

RECURSIVE Flush(_, _)
Flush(S, ref) ==
    IF ref < 0
    THEN [S EXCEPT !.sinks[-ref] = SinkFlush(@)]
    ELSE LET S0 == Note(S, ref, Call("Flush", 0, FALSE))
         IN  IF IsFlusher(S0, S.rws[ref].under)
             THEN LET S1 == IF ~Written(S0, ref)
                            THEN WriteHeaderFrom(S0, ref, StatusOK, TRUE) ELSE S0
                  IN  Flush(S1, S.rws[ref].under)
             ELSE S0

HeaderSet(S, ref, name, val) ==
    [S EXCEPT !.sinks[RootSink(S, ref)].header[name] = <<val>>]

\* http.Error: plain-text headers, the status, then the message and a newline
HttpError(S, ref, msg, code, o) ==
    LET S1 == HeaderSet(S, ref, ContentTypeHeader, TextPlain)
        S2 == HeaderSet(S1, ref, NoSniffHeader, "nosniff")
        S3 == WriteHeader(S2, ref, code)
    IN  Write(S3, ref, msg \o <<"\n">>, o).S

\* errorHandle that answers the client but reports success to its caller
errorHandleSwallows(S, w, e, o) ==
    IF e # NoErr
    THEN [S |-> HttpError(S, w, e[1], StatusInternalServerError, o), err |-> NoErr]
    ELSE [S |-> S, err |-> NoErr]

\* errorHandle that confirms a success with an explicit status
errorHandleConfirmsSuccess(S, w, e, o) ==
    IF e # NoErr
    THEN [S |-> HttpError(S, w, e[1], StatusInternalServerError, o), err |-> e]
    ELSE [S |-> WriteHeader(S, w, StatusOK), err |-> NoErr]

\* errorHandle once the inner handler has returned e: the store it leaves and
\* the error it returns
errorHandle(S, w, e, o) ==
    IF e # NoErr
    THEN [S |-> HttpError(S, w, e[1], StatusInternalServerError, o), err |-> e]
    ELSE [S |-> S, err |-> NoErr]

\* auditHandle that makes up a correlation id when the request brings none
auditHeadersInventCID(S, w, tid, cid) ==
    HeaderSet(HeaderSet(S, w, RequestIDHeader, tid), w, RequestContextHeader,
              IF cid = "" THEN tid ELSE cid)

\* auditHandle's two response headers
auditHeaders(S, w, tid, cid) ==
    HeaderSet(HeaderSet(S, w, RequestIDHeader, tid), w, RequestContextHeader, cid)

\* ------------------------------------------------------------------ Wrap
\* Audit without its Error wrapping
ApplyWrapperBareAudit(w, i, cur) ==
    CASE w = "Error" -> <<[kind |-> "errorHandle", idx |-> i]>> \o cur
      [] w = "Log"   -> <<[kind |-> "logHandle", idx |-> i]>> \o cur
      [] w = "Audit" -> <<[kind |-> "auditHandle", idx |-> i]>> \o cur

\* w(currentHandler): the layers a wrapper puts around the current handler
ApplyWrapper(w, i, cur) ==
    CASE w = "Error" -> <<[kind |-> "errorHandle", idx |-> i]>> \o cur
      [] w = "Log"   -> <<[kind |-> "logHandle", idx |-> i]>> \o cur
      [] w = "Audit" -> <<[kind |-> "errorHandle", idx |-> i],
                          [kind |-> "auditHandle", idx |-> i]>> \o cur

\* Wrap that walks the list from its end, leaving the first listed outermost
RECURSIVE WrapFirstOutermost(_, _, _)
WrapFirstOutermost(cur, ws, i) ==
    IF i > Len(ws) THEN cur
    ELSE WrapFirstOutermost(ApplyWrapper(ws[Len(ws) + 1 - i], Len(ws) + 1 - i, cur), ws, i + 1)

\* the loop of Wrap: each wrapper in list order encloses what was built so far
RECURSIVE WrapLoop(_, _, _)
WrapLoop(cur, ws, i) ==
    IF i > Len(ws) THEN cur ELSE WrapLoop(ApplyWrapper(ws[i], i, cur), ws, i + 1)

\* Wrap whose dispatch handler translates errors on its own
WrapTranslates(ws) == ApplyWrapper("Error", 0, WrapLoop(<<>>, ws, 1))

Wrap(ws) == WrapLoop(<<>>, ws, 1)

SeqsUpTo(S, n) == UNION {[1..k -> S] : k \in 0..n}

\* ------------------------------------------------- content negotiation
\* json.Unmarshal: a new decoder reads what is left of the body; it fills the
\* target only after it has scanned one whole document
Unmarshal(rest, target) ==
    IF rest = <<>> THEN [err |-> ErrEOF, target |-> target, read |-> 0]
    ELSE IF rest = Doc THEN [err |-> NoErr, target |-> <<rest[2]>>, read |-> Len(rest)]
    ELSE [err |-> ErrUnexpectedEOF, target |-> target, read |-> Len(rest)]

ReadJSON(rq) ==
    LET body == rq.body[1]
        R == Unmarshal(SubSeq(body, rq.consumed + 1, Len(body)), rq.target)
    IN  [req |-> [rq EXCEPT !.consumed = @ + R.read, !.target = R.target],
         err |-> R.err]

\* a dispatch that decodes as JSON whatever the header announces
ReadByContentTypeFallsBack(rq) == ReadJSON(rq)

ReadByContentType(rq) ==
    IF Contains(rq.ctype[1], JSONContentType)
    THEN ReadJSON(rq)
    ELSE [req |-> rq, err |-> ErrInvalidContentType]

\* json.Marshal: the encoder builds the whole document and a newline, then
\* writes them with one Write; a value it cannot encode is never written
Marshal(S, w, res, o) ==
    IF res = "chan"
    THEN [S |-> S, err |-> ErrUnsupportedType]
    ELSE LET R == Write(S, w, Doc \o <<"\n">>, o)
         IN  [S |-> R.S, err |-> R.err]

\* a JSON helper that encodes the body before it sets header and status
JSONBodyFirst(S, w, status, res, o) ==
    LET R == Marshal(S, w, res, o)
        S2 == WriteHeader(R.S, w, status)
    IN  [S |-> HeaderSet(S2, w, ContentTypeHeader, JSONContentType), err |-> R.err]

JSON(S, w, status, res, o) ==
    LET S1 == HeaderSet(S, w, ContentTypeHeader, JSONContentType)
        S2 == WriteHeader(S1, w, status)
    IN  Marshal(S2, w, res, o)

WriteByAccept(S, w, rq, status, res, o) ==
    IF Contains(rq.accept[1], JSONContentType)
    THEN JSON(S, w, status, res, o)
    ELSE [S |-> S, err |-> ErrInvalidAccept]

\* ------------------------------------------------------------------ Init
Init ==
    /\ pc = [q \in AllReqs |-> IF q = 1 THEN "init" ELSE "off"]
    /\ wrappers = [q \in AllReqs |-> <<>>]
    /\ chain = [q \in AllReqs |-> <<>>]
    /\ pos = [q \in AllReqs |-> 0]
    /\ dir = [q \in AllReqs |-> "call"]
    /\ err = [q \in AllReqs |-> NoErr]
    /\ wargs = [q \in AllReqs |-> <<>>]
    /\ rargs = [q \in AllReqs |-> <<>>]
    /\ locals = [q \in AllReqs |-> <<>>]
    /\ inbound = [q \in AllReqs |-> ""]
    /\ sinks = [q \in AllReqs |-> NewSink(FALSE)]
    /\ rws = <<>>
    /\ log = <<>>
    /\ nextId = 1
    /\ ops = [q \in AllReqs |-> MaxOps]
    /\ hops = [q \in AllReqs |-> <<>>]
    /\ trace = [q \in AllReqs |-> <<>>]
    /\ objs = <<>>
    /\ reqs = [q \in AllReqs |-> NoRequest]

\* --------------------------------------------------------------- actions
Base(q) == Len(chain[q]) + 1

AtLayer(q, kind, d) ==
    /\ pc[q] = "run"
    /\ dir[q] = d
    /\ pos[q] \in 1..Len(chain[q])
    /\ chain[q][pos[q]].kind = kind

Ev(e, q) == [ev |-> e, idx |-> chain[q][pos[q]].idx, kind |-> chain[q][pos[q]].kind]

NoLocals == [tid |-> "", rw |-> 0, cid |-> ""]

LogEvent(sev, event, tid, cid, status, size, e) ==
    [sev |-> sev, event |-> event, tid |-> tid, cid |-> cid,
     status |-> status, size |-> size, err |-> e]

\* Wrap(h, wrappers...): the handler is built once, before any request
DoWrap(q, ws) ==
    /\ pc[q] = "init"
    /\ wrappers' = [wrappers EXCEPT ![q] = ws]
    /\ chain' = [chain EXCEPT ![q] = Wrap(ws)]
    /\ pc' = [pc EXCEPT ![q] = "ready"]
    /\ UNCHANGED <<objs, reqs, pos, dir, err, wargs, rargs, locals, inbound, sinks, rws, log,
                   nextId, ops, hops, trace>>

\* the server calls the http.HandlerFunc that Handler returned
Serve(q, cid, fl) ==
    /\ pc[q] = "ready"
    /\ pc' = [pc EXCEPT ![q] = "run"]
    /\ inbound' = [inbound EXCEPT ![q] = cid]
    /\ sinks' = [sinks EXCEPT ![q] = NewSink(fl)]
    /\ pos' = [pos EXCEPT ![q] = 1]
    /\ dir' = [dir EXCEPT ![q] = "call"]
    /\ wargs' = [wargs EXCEPT ![q] = <<-q>>]
    /\ rargs' = [rargs EXCEPT ![q] = <<EmptyCtx>>]
    /\ UNCHANGED <<objs, reqs, wrappers, chain, err, locals, rws, log, nextId, ops, hops, trace>>

\* errorHandle up to its call of the inner handler
ErrorEnter(q) ==
    /\ AtLayer(q, "errorHandle", "call")
    /\ wargs' = [wargs EXCEPT ![q] = Append(@, wargs[q][pos[q]])]
    /\ rargs' = [rargs EXCEPT ![q] = Append(@, rargs[q][pos[q]])]
    /\ locals' = [locals EXCEPT ![q] = Append(@, NoLocals)]
    /\ pos' = [pos EXCEPT ![q] = @ + 1]
    /\ trace' = [trace EXCEPT ![q] = Append(@, Ev("before", q))]
    /\ UNCHANGED <<objs, reqs, pc, wrappers, chain, dir, err, inbound, sinks, rws, log, nextId, ops, hops>>

\* errorHandle after the inner handler returned
ErrorExit(q, o) ==
    /\ AtLayer(q, "errorHandle", "ret")
    /\ LET R == errorHandle(Store(rws, sinks), wargs[q][pos[q]], err[q], o)
       IN  /\ rws' = R.S.rws
           /\ sinks' = R.S.sinks
           /\ err' = [err EXCEPT ![q] = R.err]
    /\ wargs' = [wargs EXCEPT ![q] = Front(@)]
    /\ rargs' = [rargs EXCEPT ![q] = Front(@)]
    /\ locals' = [locals EXCEPT ![q] = Front(@)]
    /\ pos' = [pos EXCEPT ![q] = @ - 1]
    /\ trace' = [trace EXCEPT ![q] = Append(@, Ev("after", q))]
    /\ UNCHANGED <<objs, reqs, pc, wrappers, chain, dir, inbound, log, nextId, ops, hops>>

\* exit logging that reports the response only when the handler succeeded
exitEventsOnSuccessOnly(me, e, S) ==
    IF e # NoErr
    THEN <<LogEvent("error", "RequestErr", me.tid, me.cid, "", 0, e)>>
    ELSE <<LogEvent("info", "Response", me.tid, me.cid,
                    StatusText(Status(S, me.rw)), Size(S, me.rw), NoErr)>>

\* what logHandle and auditHandle log once the inner handler has returned e:
\* the error if there is one, then the response as their own writer saw it
exitEvents(me, e, S) ==
    (IF e # NoErr
     THEN <<LogEvent("error", "RequestErr", me.tid, me.cid, "", 0, e)>>
     ELSE <<>>)
    \o <<LogEvent("info", "Response", me.tid, me.cid,
                  StatusText(Status(S, me.rw)), Size(S, me.rw), NoErr)>>

\* logHandle up to its call of the inner handler
LogEnter(q) ==
    /\ AtLayer(q, "logHandle", "call")
    /\ nextId <= Len(UUIDs)
    /\ LET tid == UUIDs[nextId]
           r1 == set(rargs[q][pos[q]], "tid", tid)
           logger == [tid |-> tid, cid |-> "", token |-> ""]
           r2 == set(r1, ContextKeys.LOG, logger)
           rw == Len(rws) + 1
       IN  /\ log' = Append(log, LogEvent("info", "Request", tid, "", "", 0, NoErr))
           /\ rws' = Append(rws, NewResponseWriter(wargs[q][pos[q]]))
           /\ wargs' = [wargs EXCEPT ![q] = Append(@, rw)]
           /\ rargs' = [rargs EXCEPT ![q] = Append(@, r2)]
           /\ locals' = [locals EXCEPT ![q] = Append(@, [tid |-> tid, rw |-> rw, cid |-> ""])]
    /\ nextId' = nextId + 1
    /\ pos' = [pos EXCEPT ![q] = @ + 1]
    /\ trace' = [trace EXCEPT ![q] = Append(@, Ev("before", q))]
    /\ UNCHANGED <<objs, reqs, pc, wrappers, chain, dir, err, inbound, sinks, ops, hops>>

\* logHandle after the inner handler returned
LogExit(q) ==
    /\ AtLayer(q, "logHandle", "ret")
    /\ log' = log \o exitEvents(locals[q][pos[q]], err[q], Store(rws, sinks))
    /\ wargs' = [wargs EXCEPT ![q] = Front(@)]
    /\ rargs' = [rargs EXCEPT ![q] = Front(@)]
    /\ locals' = [locals EXCEPT ![q] = Front(@)]
    /\ pos' = [pos EXCEPT ![q] = @ - 1]
    /\ trace' = [trace EXCEPT ![q] = Append(@, Ev("after", q))]
    /\ UNCHANGED <<objs, reqs, pc, wrappers, chain, dir, err, inbound, sinks, rws, nextId, ops, hops>>

\* auditHandle up to its call of the inner handler
AuditEnter(q) ==
    /\ AtLayer(q, "auditHandle", "call")
    /\ nextId <= Len(UUIDs)
    /\ LET tid == UUIDs[nextId]
           cid == inbound[q]
           w == wargs[q][pos[q]]
           S2 == auditHeaders(Store(rws, sinks), w, tid, cid)
           r1 == set(rargs[q][pos[q]], ContextKeys.TID, tid)
           r2 == set(r1, ContextKeys.CID, tid)
           identity == newIdentity(objs)
           token == identity.objs[identity.addr].Token
           logger == [tid |-> tid, cid |-> cid, token |-> token]
           auditor == newAuditor(identity.objs, tid, cid, logger, identity.addr)
           r3 == set(r2, ContextKeys.LOG, logger)
           r4 == set(r3, ContextKeys.TOKEN, token)
           r5 == set(r4, ContextKeys.IDENTITY, identity.addr)
           r6 == set(r5, ContextKeys.AUDITOR, auditor.addr)
           rw == Len(rws) + 1
       IN  /\ log' = Append(log, LogEvent("info", "Request", tid, cid, "", 0, NoErr))
           /\ objs' = auditor.objs
           /\ sinks' = S2.sinks
           /\ rws' = Append(S2.rws, NewResponseWriter(w))
           /\ wargs' = [wargs EXCEPT ![q] = Append(@, rw)]
           /\ rargs' = [rargs EXCEPT ![q] = Append(@, r6)]
           /\ locals' = [locals EXCEPT ![q] = Append(@, [tid |-> tid, rw |-> rw, cid |-> cid])]
    /\ nextId' = nextId + 1
    /\ pos' = [pos EXCEPT ![q] = @ + 1]
    /\ trace' = [trace EXCEPT ![q] = Append(@, Ev("before", q))]
    /\ UNCHANGED <<reqs, pc, wrappers, chain, dir, err, inbound, ops, hops>>

\* auditHandle after the inner handler returned
AuditExit(q) ==
    /\ AtLayer(q, "auditHandle", "ret")
    /\ log' = log \o exitEvents(locals[q][pos[q]], err[q], Store(rws, sinks))
    /\ wargs' = [wargs EXCEPT ![q] = Front(@)]
    /\ rargs' = [rargs EXCEPT ![q] = Front(@)]
    /\ locals' = [locals EXCEPT ![q] = Front(@)]
    /\ pos' = [pos EXCEPT ![q] = @ - 1]
    /\ trace' = [trace EXCEPT ![q] = Append(@, Ev("after", q))]
    /\ UNCHANGED <<objs, reqs, pc, wrappers, chain, dir, err, inbound, sinks, rws, nextId, ops, hops>>

\* ------------------------------------------------------ the base handler
AtBase(q) ==
    /\ pc[q] = "run"
    /\ dir[q] = "call"
    /\ pos[q] = Base(q)

HandlerOp(q, op, arg, S) ==
    /\ ops[q] > 0
    /\ ops' = [ops EXCEPT ![q] = @ - 1]
    /\ hops' = [hops EXCEPT ![q] = Append(@, [op |-> op, arg |-> arg, err |-> NoErr])]
    /\ rws' = S.rws
    /\ sinks' = S.sinks
    /\ UNCHANGED <<objs, reqs, pc, wrappers, chain, pos, dir, err, wargs, rargs, locals, inbound,
                   log, nextId, trace>>

\* the base handler calls w.WriteHeader(c)
HandlerWriteHeader(q, c) ==
    /\ AtBase(q)
    /\ HandlerOp(q, "WriteHeader", c, WriteHeader(Store(rws, sinks), wargs[q][pos[q]], c))

\* the base handler calls w.Write(Payload); the transport's outcome is o
HandlerWrite(q, o) ==
    /\ AtBase(q)
    /\ LET R == Write(Store(rws, sinks), wargs[q][pos[q]], Payload, o)
       IN  HandlerOp(q, "Write", R.n, R.S)

\* the base handler flushes a writer that offers http.Flusher
HandlerFlush(q) ==
    /\ AtBase(q)
    /\ IsFlusher(Store(rws, sinks), wargs[q][pos[q]])
    /\ HandlerOp(q, "Flush", 0, Flush(Store(rws, sinks), wargs[q][pos[q]]))

\* a header of the request shows its value when it is first read, and keeps it
Observed(field, v) == field = <<>> \/ field = <<v>>

\* the base handler calls ReadByContentType(r, &target); the request came
\* with Content-Type ct and body b
HandlerRead(q, ct, b) ==
    /\ AtBase(q)
    /\ ops[q] > 0
    /\ Observed(reqs[q].ctype, ct)
    /\ Observed(reqs[q].body, b)
    /\ LET R == ReadByContentType([reqs[q] EXCEPT !.ctype = <<ct>>, !.body = <<b>>])
       IN  /\ reqs' = [reqs EXCEPT ![q] = R.req]
           /\ hops' = [hops EXCEPT ![q] =
                          Append(@, [op |-> "ReadByContentType", arg |-> 0, err |-> R.err])]
    /\ ops' = [ops EXCEPT ![q] = @ - 1]
    /\ UNCHANGED <<objs, pc, wrappers, chain, pos, dir, err, wargs, rargs, locals, inbound,
                   sinks, rws, log, nextId, trace>>

\* the base handler calls WriteByAccept(w, r, status, result); the request
\* came with Accept ac, and the transport's outcome for a Write is o
HandlerWriteByAccept(q, ac, status, res, o) ==
    /\ AtBase(q)
    /\ ops[q] > 0
    /\ Observed(reqs[q].accept, ac)
    /\ LET rq == [reqs[q] EXCEPT !.accept = <<ac>>]
           R == WriteByAccept(Store(rws, sinks), wargs[q][pos[q]], rq, status, res, o)
       IN  /\ reqs' = [reqs EXCEPT ![q] = rq]
           /\ rws' = R.S.rws
           /\ sinks' = R.S.sinks
           /\ hops' = [hops EXCEPT ![q] =
                          Append(@, [op |-> "WriteByAccept", arg |-> status, err |-> R.err])]
    /\ ops' = [ops EXCEPT ![q] = @ - 1]
    /\ UNCHANGED <<objs, pc, wrappers, chain, pos, dir, err, wargs, rargs, locals, inbound,
                   log, nextId, trace>>

\* the base handler returns e (NoErr is nil)
HandlerReturn(q, e) ==
    /\ AtBase(q)
    /\ err' = [err EXCEPT ![q] = e]
    /\ dir' = [dir EXCEPT ![q] = "ret"]
    /\ pos' = [pos EXCEPT ![q] = @ - 1]
    /\ wargs' = [wargs EXCEPT ![q] = Front(@)]
    /\ rargs' = [rargs EXCEPT ![q] = Front(@)]
    /\ hops' = [hops EXCEPT ![q] = Append(@, [op |-> "return", arg |-> 0, err |-> e])]
    /\ trace' = [trace EXCEPT ![q] = Append(@, [ev |-> "h", idx |-> 0, kind |-> "handler"])]
    /\ UNCHANGED <<objs, reqs, pc, wrappers, chain, locals, inbound, sinks, rws, log, nextId, ops>>

\* the closure of Handler: the outermost handler returned, its error is dropped
HandlerDone(q) ==
    /\ pc[q] = "run"
    /\ dir[q] = "ret"
    /\ pos[q] = 0
    /\ pc' = [pc EXCEPT ![q] = "done"]
    /\ UNCHANGED <<objs, reqs, wrappers, chain, pos, dir, err, wargs, rargs, locals, inbound, sinks,
                   rws, log, nextId, ops, hops, trace>>

\* Spec: any chain of up to MaxChain decorators, served on the transport's own
\* response writer, which offers http.Flusher (SpecRW also takes sinks without)
Next ==
    \E q \in AllReqs :
        \/ \E ws \in SeqsUpTo(Wrappers, MaxChain) : DoWrap(q, ws)
        \/ \E cid \in InboundCIDs : Serve(q, cid, TRUE)
        \/ ErrorEnter(q)
        \/ \E o \in WriteOutcomes : ErrorExit(q, o)
        \/ LogEnter(q)
        \/ LogExit(q)
        \/ AuditEnter(q)
        \/ AuditExit(q)
        \/ \E c \in HandlerCodes : HandlerWriteHeader(q, c)
        \/ \E o \in WriteOutcomes : HandlerWrite(q, o)
        \/ HandlerFlush(q)
        \/ \E e \in {NoErr} \cup {<<m>> : m \in Messages} : HandlerReturn(q, e)
        \/ HandlerDone(q)

Spec == Init /\ [][Next]_vars

\* ------------------------------------------------ the writer at length
\* SpecRW follows a base handler that works longer on its writer, below the
\* chains that give it a responseWriter: over the sink, over another
\* responseWriter, and under Audit's error translation.
RwChains == {<<"Log">>, <<"Log", "Log">>, <<"Audit">>}

InitRW ==
    /\ pc = [q \in AllReqs |-> IF q = 1 THEN "init" ELSE "off"]
    /\ wrappers = [q \in AllReqs |-> <<>>]
    /\ chain = [q \in AllReqs |-> <<>>]
    /\ pos = [q \in AllReqs |-> 0]
    /\ dir = [q \in AllReqs |-> "call"]
    /\ err = [q \in AllReqs |-> NoErr]
    /\ wargs = [q \in AllReqs |-> <<>>]
    /\ rargs = [q \in AllReqs |-> <<>>]
    /\ locals = [q \in AllReqs |-> <<>>]
    /\ inbound = [q \in AllReqs |-> ""]
    /\ sinks = [q \in AllReqs |-> NewSink(FALSE)]
    /\ rws = <<>>
    /\ log = <<>>
    /\ nextId = 1
    /\ ops = [q \in AllReqs |-> MaxRwOps]
    /\ hops = [q \in AllReqs |-> <<>>]
    /\ trace = [q \in AllReqs |-> <<>>]
    /\ objs = <<>>
    /\ reqs = [q \in AllReqs |-> NoRequest]

NextRW ==
    \E q \in AllReqs :
        \/ \E ws \in RwChains : DoWrap(q, ws)
        \/ \E cid \in InboundCIDs, fl \in BOOLEAN : Serve(q, cid, fl)
        \/ ErrorEnter(q)
        \/ \E o \in WriteOutcomes : ErrorExit(q, o)
        \/ LogEnter(q)
        \/ LogExit(q)
        \/ AuditEnter(q)
        \/ AuditExit(q)
        \/ \E c \in HandlerCodes : HandlerWriteHeader(q, c)
        \/ \E o \in WriteOutcomes : HandlerWrite(q, o)
        \/ HandlerFlush(q)
        \/ \E e \in {NoErr} \cup {<<m>> : m \in Messages} : HandlerReturn(q, e)
        \/ HandlerDone(q)

SpecRW == InitRW /\ [][NextRW]_vars

\* ------------------------------------------- two handlers, one behaviour
\* SpecEq serves the same request to Audit(h) (request 1) and then to
\* Error(Audit(h)) (request 2, built by Wrap(h, Audit, Error)); request 2
\* replays the inbound header, the sink and the base handler of request 1.
IsPrefix(s, t) == Len(s) <= Len(t) /\ SubSeq(t, 1, Len(s)) = s

Turn(q) == q = 1 \/ pc[1] = "done"

SameInput ==
    pc[2] \in {"run", "done"} =>
        /\ inbound[2] = inbound[1]
        /\ sinks[2].flusher = sinks[1].flusher
        /\ IsPrefix(hops[2], hops[1])

InitEq ==
    /\ pc = [q \in AllReqs |-> "init"]
    /\ wrappers = [q \in AllReqs |-> <<>>]
    /\ chain = [q \in AllReqs |-> <<>>]
    /\ pos = [q \in AllReqs |-> 0]
    /\ dir = [q \in AllReqs |-> "call"]
    /\ err = [q \in AllReqs |-> NoErr]
    /\ wargs = [q \in AllReqs |-> <<>>]
    /\ rargs = [q \in AllReqs |-> <<>>]
    /\ locals = [q \in AllReqs |-> <<>>]
    /\ inbound = [q \in AllReqs |-> ""]
    /\ sinks = [q \in AllReqs |-> NewSink(FALSE)]
    /\ rws = <<>>
    /\ log = <<>>
    /\ nextId = 1
    /\ ops = [q \in AllReqs |-> MaxOps]
    /\ hops = [q \in AllReqs |-> <<>>]
    /\ trace = [q \in AllReqs |-> <<>>]
    /\ objs = <<>>
    /\ reqs = [q \in AllReqs |-> NoRequest]

NextEq ==
    \/ DoWrap(1, <<"Audit">>)
    \/ DoWrap(2, <<"Audit", "Error">>)
    \/ \E q \in AllReqs :
           /\ Turn(q)
           /\ \/ \E cid \in InboundCIDs, fl \in BOOLEAN : Serve(q, cid, fl)
              \/ ErrorEnter(q)
              \/ \E o \in WriteOutcomes : ErrorExit(q, o)
              \/ AuditEnter(q)
              \/ AuditExit(q)
              \/ \E c \in HandlerCodes : HandlerWriteHeader(q, c)
              \/ \E o \in WriteOutcomes : HandlerWrite(q, o)
              \/ HandlerFlush(q)
              \/ \E e \in {NoErr} \cup {<<m>> : m \in Messages} : HandlerReturn(q, e)
              \/ HandlerDone(q)
           /\ SameInput'

SpecEq == InitEq /\ [][NextEq]_vars

\* SpecAdapt: a fallible handler converted to ErrorHandler, LogHandler or
\* AuditHandler and registered with the server as an http.Handler
Adapters == {"ErrorHandler", "LogHandler", "AuditHandler"}

\* an AuditHandler that translates errors the way the Audit decorator does
ServeHTTPAuditTranslates(a) ==
    CASE a = "ErrorHandler" -> <<[kind |-> "errorHandle", idx |-> 1]>>
      [] a = "LogHandler"   -> <<[kind |-> "logHandle", idx |-> 1]>>
      [] a = "AuditHandler" -> <<[kind |-> "errorHandle", idx |-> 1],
                                 [kind |-> "auditHandle", idx |-> 1]>>

\* ServeHTTP of each adapter type: the one function it calls around h; what
\* that function returns is not used
ServeHTTP(a) ==
    CASE a = "ErrorHandler" -> <<[kind |-> "errorHandle", idx |-> 1]>>
      [] a = "LogHandler"   -> <<[kind |-> "logHandle", idx |-> 1]>>
      [] a = "AuditHandler" -> <<[kind |-> "auditHandle", idx |-> 1]>>

DoAdapt(q, a) ==
    /\ pc[q] = "init"
    /\ wrappers' = [wrappers EXCEPT ![q] = <<a>>]
    /\ chain' = [chain EXCEPT ![q] = ServeHTTP(a)]
    /\ pc' = [pc EXCEPT ![q] = "ready"]
    /\ UNCHANGED <<objs, reqs, pos, dir, err, wargs, rargs, locals, inbound, sinks, rws, log,
                   nextId, ops, hops, trace>>

InitAdapt ==
    /\ pc = [q \in AllReqs |-> IF q = 1 THEN "init" ELSE "off"]
    /\ wrappers = [q \in AllReqs |-> <<>>]
    /\ chain = [q \in AllReqs |-> <<>>]
    /\ pos = [q \in AllReqs |-> 0]
    /\ dir = [q \in AllReqs |-> "call"]
    /\ err = [q \in AllReqs |-> NoErr]
    /\ wargs = [q \in AllReqs |-> <<>>]
    /\ rargs = [q \in AllReqs |-> <<>>]
    /\ locals = [q \in AllReqs |-> <<>>]
    /\ inbound = [q \in AllReqs |-> ""]
    /\ sinks = [q \in AllReqs |-> NewSink(TRUE)]
    /\ rws = <<>>
    /\ log = <<>>
    /\ nextId = 1
    /\ ops = [q \in AllReqs |-> MaxOps]
    /\ hops = [q \in AllReqs |-> <<>>]
    /\ trace = [q \in AllReqs |-> <<>>]
    /\ objs = <<>>
    /\ reqs = [q \in AllReqs |-> NoRequest]

NextAdapt ==
    \E q \in AllReqs :
        \/ \E a \in Adapters : DoAdapt(q, a)
        \/ \E cid \in InboundCIDs, fl \in BOOLEAN : Serve(q, cid, fl)
        \/ ErrorEnter(q)
        \/ \E o \in WriteOutcomes : ErrorExit(q, o)
        \/ LogEnter(q)
        \/ LogExit(q)
        \/ AuditEnter(q)
        \/ AuditExit(q)
        \/ \E c \in HandlerCodes : HandlerWriteHeader(q, c)
        \/ \E o \in WriteOutcomes : HandlerWrite(q, o)
        \/ HandlerFlush(q)
        \/ \E e \in {NoErr} \cup {<<m>> : m \in Messages} : HandlerReturn(q, e)
        \/ HandlerDone(q)

SpecAdapt == InitAdapt /\ [][NextAdapt]_vars

\* SpecIO: a base handler that negotiates the media type of what it reads and
\* writes, dispatched bare or below Log
IoChains == {<<>>, <<"Log">>}

InitIO ==
    /\ pc = [q \in AllReqs |-> IF q = 1 THEN "init" ELSE "off"]
    /\ wrappers = [q \in AllReqs |-> <<>>]
    /\ chain = [q \in AllReqs |-> <<>>]
    /\ pos = [q \in AllReqs |-> 0]
    /\ dir = [q \in AllReqs |-> "call"]
    /\ err = [q \in AllReqs |-> NoErr]
    /\ wargs = [q \in AllReqs |-> <<>>]
    /\ rargs = [q \in AllReqs |-> <<>>]
    /\ locals = [q \in AllReqs |-> <<>>]
    /\ inbound = [q \in AllReqs |-> ""]
    /\ sinks = [q \in AllReqs |-> NewSink(TRUE)]
    /\ rws = <<>>
    /\ log = <<>>
    /\ nextId = 1
    /\ ops = [q \in AllReqs |-> MaxIoOps]
    /\ hops = [q \in AllReqs |-> <<>>]
    /\ trace = [q \in AllReqs |-> <<>>]
    /\ objs = <<>>
    /\ reqs = [q \in AllReqs |-> NoRequest]

\* the handler returns nil or the error its last negotiation call returned
LastErr(q) == IF hops[q] = <<>> THEN NoErr ELSE hops[q][Len(hops[q])].err

NextIO ==
    \E q \in AllReqs :
        \/ \E ws \in IoChains : DoWrap(q, ws)
        \/ Serve(q, "", TRUE)
        \/ LogEnter(q)
        \/ LogExit(q)
        \/ \E ct \in HeaderValues, b \in Bodies : HandlerRead(q, ct, b)
        \/ \E ac \in HeaderValues, c \in HandlerCodes, res \in Results,
              o \in WriteOutcomes : HandlerWriteByAccept(q, ac, c, res, o)
        \/ \E e \in {NoErr, LastErr(q)} : HandlerReturn(q, e)
        \/ HandlerDone(q)

SpecIO == InitIO /\ [][NextIO]_vars

\* SpecConc: two requests served at the same time, each by its own goroutine,
\* through Wrap(h, Audit); the steps of the two interleave freely (request 1
\* brings a correlation id, request 2 none; the transport accepts every write)
InitConc ==
    /\ pc = [q \in AllReqs |-> "init"]
    /\ wrappers = [q \in AllReqs |-> <<>>]
    /\ chain = [q \in AllReqs |-> <<>>]
    /\ pos = [q \in AllReqs |-> 0]
    /\ dir = [q \in AllReqs |-> "call"]
    /\ err = [q \in AllReqs |-> NoErr]
    /\ wargs = [q \in AllReqs |-> <<>>]
    /\ rargs = [q \in AllReqs |-> <<>>]
    /\ locals = [q \in AllReqs |-> <<>>]
    /\ inbound = [q \in AllReqs |-> ""]
    /\ sinks = [q \in AllReqs |-> NewSink(TRUE)]
    /\ rws = <<>>
    /\ log = <<>>
    /\ nextId = 1
    /\ ops = [q \in AllReqs |-> MaxOps]
    /\ hops = [q \in AllReqs |-> <<>>]
    /\ trace = [q \in AllReqs |-> <<>>]
    /\ objs = <<>>
    /\ reqs = [q \in AllReqs |-> NoRequest]

NextConc ==
    \E q \in AllReqs :
        \/ DoWrap(q, <<"Audit">>)
        \/ Serve(q, IF q = 1 THEN "c1" ELSE "", TRUE)
        \/ ErrorEnter(q)
        \/ ErrorExit(q, "ok")
        \/ AuditEnter(q)
        \/ AuditExit(q)
        \/ HandlerWriteHeader(q, StatusOK)
        \/ HandlerWrite(q, "ok")
        \/ HandlerFlush(q)
        \/ \E e \in {NoErr, <<boom>>} : HandlerReturn(q, e)
        \/ HandlerDone(q)

SpecConc == InitConc /\ [][NextConc]_vars

\* ================================================================ claims
Done(q) == pc[q] = "done"

TheStore == Store(rws, sinks)

NL == <<"\n">>

\* the events of a trace before, and after, the base handler's own event
HIndex(t) == CHOOSE k \in 1..Len(t) : t[k].ev = "h"

\* the handler returned e and before that touched the writer n times
HandlerReturned(q) == hops[q] # <<>> /\ hops[q][Len(hops[q])].op = "return"

HandlerErr(q) == hops[q][Len(hops[q])].err

HandlerWroteNothing(q) == Len(hops[q]) = 1 /\ HandlerReturned(q)

CallerCalls(rw) == SelectSeq(rw.calls, LAMBDA c : ~c.self)

OnlyWrites(rw) ==
    /\ CallerCalls(rw) # <<>>
    /\ \A i \in 1..Len(CallerCalls(rw)) : CallerCalls(rw)[i].op = "Write"

ReturnedCounts(rw) == [i \in 1..Len(CallerCalls(rw)) |-> CallerCalls(rw)[i].arg]

\* C2: a responseWriter that has received only Write calls (at least one, no
\* WriteHeader from its caller) has Status() 200 and a Size() equal to the sum
\* of the counts its underlying writer returned, failed Writes included.
C2_WriteSetsOKAndCountsBytes ==
    \A a \in 1..Len(rws) :
        OnlyWrites(rws[a]) =>
            /\ Status(TheStore, a) = StatusOK
            /\ Size(TheStore, a) = SumSeq(ReturnedCounts(rws[a]))
            /\ rws[a].under < 0 =>
                   /\ sinks[-rws[a].under].status = StatusOK
                   /\ Size(TheStore, a) <= Len(sinks[-rws[a].under].body)

\* two Writes on a fresh writer, the first of them failed after one byte
C2_Witness ==
    \E a \in 1..Len(rws) :
        /\ OnlyWrites(rws[a])
        /\ ReturnedCounts(rws[a]) = <<Len(Payload) - 1, Len(Payload)>>
        /\ sinks[1].werrs = 1
        /\ Size(TheStore, a) = 2 * Len(Payload) - 1
        /\ Status(TheStore, a) = StatusOK

\* ---- C3 ----------------------------------------------------------------
\* the step in which the errorHandle layer of q, entered with error e, returns
ErrorTranslationStep(q) ==
    /\ AtLayer(q, "errorHandle", "ret")
    /\ err[q] # NoErr
    /\ pos'[q] = pos[q] - 1

\* C3 as stated: when the inner handler returned an error, the Error
\* decorator leaves a response of status 500 whose body is the error's
\* message, and returns the same error, whatever the inner handler did before.
C3_AlwaysOne500Response ==
    [][\A q \in AllReqs :
          ErrorTranslationStep(q) =>
              /\ sinks'[q].status = StatusInternalServerError
              /\ sinks'[q].body = err[q][1]
              /\ err'[q] = err[q]]_vars

\* C3 amended: when the inner handler returned an error, the Error decorator
\* calls http.Error once (one WriteHeader(500), one Write of the message and
\* a newline) and returns the same error; the response has status 500 only
\* if no status was sent before (an earlier status is kept), and the message
\* line is appended to whatever body was already written.
C3_TranslatesOnceAndReturnsError ==
    [][\A q \in AllReqs :
          ErrorTranslationStep(q) =>
              /\ err'[q] = err[q]
              /\ sinks'[q].whCalls = Append(sinks[q].whCalls, StatusInternalServerError)
              /\ sinks'[q].writes = Append(sinks[q].writes, err[q][1] \o NL)
              /\ sinks'[q].status = IF sinks[q].status = 0
                                    THEN StatusInternalServerError ELSE sinks[q].status
              /\ sinks'[q].werrs = sinks[q].werrs =>
                     sinks'[q].body = sinks[q].body \o err[q][1] \o NL
              /\ (sinks[q].status = 0 /\ sinks[q].body = <<>> /\ sinks'[q].werrs = 0) =>
                     /\ sinks'[q].status = StatusInternalServerError
                     /\ sinks'[q].body = err[q][1] \o NL]_vars

\* the inner handler set 404, returned boom, and Error has translated it
C3_Witness ==
    /\ Done(1)
    /\ wrappers[1] = <<"Error">>
    /\ err[1] = <<boom>>
    /\ sinks[1].whCalls = <<404, StatusInternalServerError>>
    /\ sinks[1].status = 404
    /\ sinks[1].body = boom \o NL

\* ---- C4 ----------------------------------------------------------------
LogEvents(event) == SelectSeq(log, LAMBDA e : e.event = event)

ScenarioC(q) ==
    /\ Done(q)
    /\ wrappers[q] = <<"Log", "Error">>
    /\ HandlerWroteNothing(q)
    /\ HandlerErr(q) = <<boom>>
    /\ sinks[q].werrs = 0

AuditEntered(q) ==
    \E i \in 1..Len(chain[q]) :
        /\ chain[q][i].kind = "auditHandle"
        /\ \/ Done(q)
           \/ pc[q] = "run" /\ (pos[q] > i \/ (pos[q] = i /\ dir[q] = "ret"))

\* C5: once Audit has run its entry code, so whenever its inner handler runs,
\* the response carries a non-empty trace-id header and a correlation-id
\* header equal to the inbound one ("" when absent), never a generated one.
C5_AuditSetsIdHeaders ==
    \A q \in AllReqs :
        AuditEntered(q) =>
            /\ Len(sinks[q].header[RequestIDHeader]) = 1
            /\ sinks[q].header[RequestIDHeader][1] # ""
            /\ sinks[q].header[RequestContextHeader] = <<inbound[q]>>

\* the base handler runs below Audit on a request without correlation header
C5_Witness ==
    /\ AtBase(1)
    /\ wrappers[1] = <<"Audit">>
    /\ inbound[1] = ""
    /\ sinks[1].header[RequestIDHeader] = <<"u1">>
    /\ sinks[1].header[RequestContextHeader] = <<"">>

\* ---- C6 ----------------------------------------------------------------
\* C6: the request Audit hands to the inner handler carries under
\* ContextKeys.CID the inbound correlation id (the value of the response
\* header and of Auditor.CID) and under ContextKeys.TID the generated trace id.
C6_StorageCarriesCorrelationId ==
    \A q \in AllReqs :
        (AtBase(q) /\ Len(chain[q]) > 0 /\ chain[q][Len(chain[q])].kind = "auditHandle") =>
            LET r == rargs[q][pos[q]]
                me == locals[q][Len(chain[q])]
            IN  /\ r[ContextKeys.TID] = <<me.tid>>
                /\ r[ContextKeys.CID] = <<inbound[q]>>
                /\ r[ContextKeys.CID] = sinks[q].header[RequestContextHeader]
                /\ r[ContextKeys.CID] = <<objs[r[ContextKeys.AUDITOR][1]].CID>>

\* ---- C7 ----------------------------------------------------------------
\* C7: with Wrap(h, Audit), when h returns an error without writing, the
\* response after dispatch has status 500 and a body that contains the
\* error's message (the sink having accepted what was written to it).
C7_AuditAloneTranslatesErrors ==
    \A q \in AllReqs :
        (Done(q) /\ wrappers[q] = <<"Audit">> /\ HandlerWroteNothing(q)
         /\ HandlerErr(q) # NoErr /\ sinks[q].werrs = 0) =>
            /\ sinks[q].status = StatusInternalServerError
            /\ Contains(sinks[q].body, HandlerErr(q)[1])
            /\ sinks[q].whCalls = <<StatusInternalServerError>>

C7_Witness ==
    /\ Done(1)
    /\ wrappers[1] = <<"Audit">>
    /\ HandlerWroteNothing(1)
    /\ HandlerErr(1) = <<bang>>
    /\ sinks[1].body = bang \o NL

\* ---- C8 ----------------------------------------------------------------
SameRun ==
    /\ Done(1) /\ Done(2)
    /\ wrappers[1] = <<"Audit">> /\ wrappers[2] = <<"Audit", "Error">>
    /\ hops[2] = hops[1]
    /\ inbound[2] = inbound[1]
    /\ sinks[1].werrs = 0 /\ sinks[2].werrs = 0

\* C8 as stated: for the same handler and request, Error(Audit(h)) leaves
\* the same status and the same body bytes on the sink, and returns the same
\* error, as Audit(h) alone.
C8_ErrorAroundAuditChangesNothing ==
    SameRun =>
        /\ sinks[2].status = sinks[1].status
        /\ sinks[2].body = sinks[1].body
        /\ err[2] = err[1]

\* C8 amended: for the same handler and request, Error(Audit(h)) leaves the
\* same status and returns the same error (the one h returned) as Audit(h)
\* alone, and the same body when h returns nil; when h returns an error the
\* outer Error decorator calls http.Error once more, so the sink receives a
\* second WriteHeader(500) and the body carries the message line twice.
C8_ErrorAroundAuditRepeatsMessage ==
    SameRun =>
        LET extra == IF HandlerErr(1) = NoErr THEN <<>> ELSE HandlerErr(1)[1] \o NL
            again == IF HandlerErr(1) = NoErr THEN <<>> ELSE <<StatusInternalServerError>>
        IN  /\ sinks[2].status = sinks[1].status
            /\ err[1] = HandlerErr(1)
            /\ err[2] = HandlerErr(1)
            /\ sinks[2].body = sinks[1].body \o extra
            /\ sinks[2].whCalls = sinks[1].whCalls \o again

C8_Witness ==
    /\ SameRun
    /\ HandlerErr(1) = <<boom>>
    /\ sinks[1].body = boom \o NL
    /\ sinks[2].body = boom \o NL \o boom \o NL

\* ---- C9 ----------------------------------------------------------------
\* C9: Wrap with no decorator yields a dispatch handler (the empty chain)
\* that runs the base handler exactly once and drops its error: when the
\* handler returned an error without writing, the sink is untouched.
C9_NoDecoratorDropsError ==
    \A q \in AllReqs :
        /\ (pc[q] # "init" /\ pc[q] # "off" /\ wrappers[q] = <<>>) => chain[q] = <<>>
        /\ (Done(q) /\ wrappers[q] = <<>>) =>
               /\ trace[q] = <<[ev |-> "h", idx |-> 0, kind |-> "handler"]>>
               /\ log = <<>>
               /\ HandlerWroteNothing(q) => sinks[q] = NewSink(sinks[q].flusher)

C9_Witness ==
    /\ Done(1)
    /\ wrappers[1] = <<>>
    /\ HandlerWroteNothing(1)
    /\ HandlerErr(1) = <<boom>>
    /\ sinks[1].status = 0

\* ---- C10 ---------------------------------------------------------------
\* C10: when the inner handler returned no error, the Error decorator returns
\* no error and leaves the sink and every response writer as they were.
C10_SuccessLeavesSinkAlone ==
    [][\A q \in AllReqs :
          (AtLayer(q, "errorHandle", "ret") /\ err[q] = NoErr /\ pos'[q] = pos[q] - 1) =>
              /\ err'[q] = NoErr
              /\ sinks' = sinks
              /\ rws' = rws]_vars

\* Error has returned after a handler that set 404 and succeeded
C10_Witness ==
    /\ Done(1)
    /\ wrappers[1] = <<"Error">>
    /\ err[1] = NoErr
    /\ sinks[1].whCalls = <<404>>
    /\ sinks[1].status = 404
    /\ sinks[1].body = <<>>

\* ---- C11 ---------------------------------------------------------------
EventsOf(tid) == SelectSeq(log, LAMBDA e : e.tid = tid)

EventNames(t) == [i \in 1..Len(t) |-> t[i].event]

\* the tids of the logging layers that have been entered and not yet left
ActiveTids ==
    UNION {{locals[q][p].tid : p \in 1..Len(locals[q])} : q \in AllReqs} \ {""}

\* the step in which a Log layer of request q starts, and the one in which it ends
LogEnterStep(q) == AtLayer(q, "logHandle", "call") /\ pos'[q] = pos[q] + 1

LogExitStep(q) == AtLayer(q, "logHandle", "ret") /\ pos'[q] = pos[q] - 1

LogOrderStep ==
    \A q \in AllReqs :
        /\ LogEnterStep(q) =>
               /\ Len(log') = Len(log) + 1
               /\ SubSeq(log', 1, Len(log)) = log
               /\ log'[Len(log')].event = "Request"
               /\ log'[Len(log')].tid = locals'[q][pos[q]].tid
               /\ EventsOf(log'[Len(log')].tid) = <<>>
               /\ hops[q] = <<>> /\ hops'[q] = <<>>
        /\ LogExitStep(q) =>
               LET tid == locals[q][pos[q]].tid
                   new == SubSeq(log', Len(log) + 1, Len(log'))
               IN  /\ HandlerReturned(q)
                   /\ SubSeq(log', 1, Len(log)) = log
                   /\ EventsOf(tid) = <<EventsOf(tid)[1]>>
                   /\ \A i \in 1..Len(new) : new[i].tid = tid
                   /\ EventNames(new) = IF err[q] # NoErr
                                        THEN <<"RequestErr", "Response">>
                                        ELSE <<"Response">>
                   /\ err[q] # NoErr => new[1].err = err[q]
                   /\ err'[q] = err[q]
                   /\ err[q] = HandlerErr(q)

\* C11: every invocation of the Log decorator logs one Request event before
\* its inner handler runs, then a RequestErr event only if the inner handler
\* returned an error, then exactly one Response event whether the handler
\* failed or not, and returns exactly the error the inner handler returned;
\* a layer that is still running has logged its Request event and nothing
\* else, and one that has ended logs nothing more.
C11_LogOrderAndReturn ==
    /\ [][LogOrderStep]_vars
    /\ [](\A i \in 1..Len(log) :
             LET names == EventNames(EventsOf(log[i].tid))
             IN  IF log[i].tid \in ActiveTids
                 THEN names = <<"Request">>
                 ELSE names \in {<<"Request", "Response">>,
                                 <<"Request", "RequestErr", "Response">>})

\* Log around a handler that failed with "boom": Request, RequestErr, Response
C11_Witness ==
    /\ Done(1)
    /\ wrappers[1] = <<"Log">>
    /\ HandlerErr(1) = <<boom>>
    /\ EventNames(log) = <<"Request", "RequestErr", "Response">>
    /\ log[2].err = <<boom>>

\* ---- C12 ---------------------------------------------------------------
\* the calls a writer received in the current step
NewCalls(a) == SubSeq(rws'[a].calls, Len(rws[a].calls) + 1, Len(rws'[a].calls))

FlushIndex(a) == CHOOSE i \in 1..Len(NewCalls(a)) : NewCalls(a)[i].op = "Flush"

Flushed(a) == \E i \in 1..Len(NewCalls(a)) : NewCalls(a)[i].op = "Flush"

\* the status the writer held when its Flush began
StatusAtFlush(a) ==
    IF FlushIndex(a) > 1 THEN NewCalls(a)[FlushIndex(a) - 1].arg ELSE rws[a].status

FlushStep ==
    \A a \in 1..Len(rws) :
        Flushed(a) =>
            LET u == rws[a].under
                before == StatusAtFlush(a)
            IN  /\ rws'[a].size = rws[a].size
                /\ IF IsFlusher(TheStore, u)
                   THEN /\ rws'[a].status = IF before = 0 THEN StatusOK ELSE before
                        /\ IF u < 0
                           THEN /\ sinks'[-u].flushes = sinks[-u].flushes + 1
                                /\ sinks'[-u].status # 0
                                /\ sinks'[-u].body = sinks[-u].body
                           ELSE NewCalls(u) =
                                    (IF before = 0
                                     THEN <<Call("WriteHeader", StatusOK, FALSE)>>
                                     ELSE <<>>) \o <<Call("Flush", 0, FALSE)>>
                   ELSE /\ rws'[a].status = before
                        /\ FlushIndex(a) = 1 =>
                               /\ rws'[a].status = rws[a].status
                               /\ sinks'[-u] = sinks[-u]

\* C12: Flush on a responseWriter whose underlying writer supports flushing
\* records 200 when no status was recorded (and keeps a recorded one), then
\* flushes the underlying writer; when the underlying writer does not support
\* flushing, Flush leaves the recorded status, Size() and the underlying
\* writer as they were.
C12_FlushDefaultsOnlyWhenFlushing == [][FlushStep]_vars

\* Flush, as the first call on a writer over a transport that cannot flush,
\* changed nothing
C12_Witness ==
    /\ Len(hops[1]) = 1
    /\ hops[1][1].op = "Flush"
    /\ wrappers[1] = <<"Log">>
    /\ ~sinks[1].flusher
    /\ Status(TheStore, 1) = 0
    /\ sinks[1] = NewSink(FALSE)

\* the same call over a transport that can flush: 200 recorded and sent
C12_WitnessFlushing ==
    /\ Len(hops[1]) = 1
    /\ hops[1][1].op = "Flush"
    /\ wrappers[1] = <<"Log">>
    /\ sinks[1].flusher
    /\ Status(TheStore, 1) = StatusOK
    /\ sinks[1].status = StatusOK
    /\ sinks[1].flushes = 1

\* ---- C13 ---------------------------------------------------------------
\* what request q can reach from the requests its layers were handed: the
\* trace ids, and the Identity and Auditor objects (an Auditor holds the
\* address of its Identity)
TidsOf(q) ==
    UNION {{rargs[q][p][ContextKeys.TID][i] :
                i \in 1..Len(rargs[q][p][ContextKeys.TID])} : p \in 1..Len(rargs[q])}

StoredUnder(q, key) ==
    UNION {{rargs[q][p][key][i] : i \in 1..Len(rargs[q][p][key])} : p \in 1..Len(rargs[q])}

ObjsOf(q) ==
    StoredUnder(q, ContextKeys.IDENTITY) \cup StoredUnder(q, ContextKeys.AUDITOR)
    \cup {objs[a].Identity : a \in StoredUnder(q, ContextKeys.AUDITOR)}

\* the writers reachable from a writer: itself and what it wraps, down to the sink
RECURSIVE WriterChain(_)
WriterChain(ref) == IF ref < 0 THEN {ref} ELSE {ref} \cup WriterChain(rws[ref].under)

WritersOf(q) == UNION {WriterChain(wargs[q][p]) : p \in 1..Len(wargs[q])}

\* C13: for two requests handled at the same time through Audit, the two
\* generated trace ids are distinct, and no Auditor, Identity or response
\* writer made for one request can be reached from the request-scoped storage
\* or the handler arguments of the other.
C13_ConcurrentAuditsShareNothing ==
    /\ \A i, j \in 1..Len(log) :
           (i # j /\ log[i].event = "Request" /\ log[j].event = "Request") =>
               log[i].tid # log[j].tid
    /\ \A q1, q2 \in AllReqs :
           q1 # q2 =>
               /\ TidsOf(q1) \cap TidsOf(q2) = {}
               /\ ObjsOf(q1) \cap ObjsOf(q2) = {}
               /\ WritersOf(q1) \cap WritersOf(q2) = {}
               /\ \A w \in WritersOf(q1) : w < 0 => w = -q1

\* both base handlers run at once; request 2 went through Audit's entry first
C13_Witness ==
    /\ AtBase(1) /\ AtBase(2)
    /\ TidsOf(2) = {"u1"} /\ TidsOf(1) = {"u2"}
    /\ ObjsOf(2) = {1, 2} /\ ObjsOf(1) = {3, 4}
    /\ WritersOf(2) = {-2, 1} /\ WritersOf(1) = {-1, 2}

\* ---- C14 ---------------------------------------------------------------
\* the base handler's call made in the current step, if it made one
Called(q, op) ==
    /\ Len(hops'[q]) = Len(hops[q]) + 1
    /\ hops'[q][Len(hops'[q])].op = op

Returned(q) == hops'[q][Len(hops'[q])].err

ReadStep ==
    \A q \in AllReqs :
        Called(q, "ReadByContentType") =>
            LET ct == reqs'[q].ctype[1]
                body == reqs'[q].body[1]
                left == SubSeq(body, reqs[q].consumed + 1, Len(body))
            IN  /\ sinks' = sinks /\ rws' = rws
                /\ IF Contains(ct, JSONContentType)
                   THEN /\ Returned(q) = Unmarshal(left, reqs[q].target).err
                        /\ reqs'[q].target = Unmarshal(left, reqs[q].target).target
                        /\ reqs'[q].consumed = Len(body)
                   ELSE /\ Returned(q) = ErrInvalidContentType
                        /\ reqs'[q].consumed = reqs[q].consumed
                        /\ reqs'[q].target = reqs[q].target

\* C14: ReadByContentType on a request whose Content-Type header does not
\* contain the JSON content type (an absent header included) returns
\* ErrInvalidContentType, reads no byte of the body and leaves the target as
\* it was; when the header contains the JSON content type the call hands the
\* body to the JSON decoder and returns what the decoder returned.
C14_ReadDispatchesOnContentType == [][ReadStep]_vars

\* a text/plain request with a JSON body: refused, nothing read
C14_Witness ==
    /\ Len(hops[1]) = 1
    /\ hops[1][1].op = "ReadByContentType"
    /\ hops[1][1].err = ErrInvalidContentType
    /\ reqs[1].ctype = <<TextPlain>>
    /\ reqs[1].body = <<Doc>>
    /\ reqs[1].consumed = 0
    /\ reqs[1].target = <<>>

\* Content-Type "application/json; charset=utf-8": decoded into the target
C14_WitnessDecoded ==
    /\ Len(hops[1]) = 1
    /\ hops[1][1].op = "ReadByContentType"
    /\ hops[1][1].err = NoErr
    /\ reqs[1].ctype = <<JSONContentType \o <<"; charset=utf-8">> >>
    /\ reqs[1].target = <<"a1">>

\* ---- C15 ---------------------------------------------------------------
WriteByAcceptStep ==
    \A q \in AllReqs :
        Called(q, "WriteByAccept") =>
            LET ac == reqs'[q].accept[1]
                status == hops'[q][Len(hops'[q])].arg
                w == wargs[q][pos[q]]
                fresh == sinks[q].status = 0 /\ sinks[q].body = <<>>
            IN  IF Contains(ac, JSONContentType)
                THEN /\ sinks'[q].header[ContentTypeHeader] = <<JSONContentType>>
                     /\ sinks'[q].whCalls = Append(sinks[q].whCalls, status)
                     /\ Len(sinks'[q].writes) <= Len(sinks[q].writes) + 1
                     /\ w > 0 => /\ NewCalls(w)[1] = Call("WriteHeader", status, FALSE)
                                 /\ \A i \in 2..Len(NewCalls(w)) : NewCalls(w)[i].op = "Write"
                                 /\ fresh => Status(Store(rws', sinks'), w) = status
                     /\ fresh =>
                            /\ sinks'[q].status = status
                            /\ sinks'[q].sent[1][ContentTypeHeader] = <<JSONContentType>>
                            /\ IsPrefix(sinks'[q].body, Doc \o NL)
                     /\ Returned(q) = NoErr => sinks'[q].body = sinks[q].body \o Doc \o NL
                ELSE /\ Returned(q) = ErrInvalidAccept
                     /\ sinks' = sinks
                     /\ rws' = rws

\* C15: WriteByAccept on a request whose Accept header does not contain the
\* JSON content type returns ErrInvalidAccept and leaves the response sink as
\* it was (no header, no status, no body byte); when the header contains it,
\* the Content-Type response header is set and the given status is sent
\* before any byte of the body is written.
C15_WriteDispatchesOnAccept == [][WriteByAcceptStep]_vars

\* Accept "text/plain, application/json", status 404, below Log: the header
\* and the 404 went out, then the document
C15_Witness ==
    /\ Len(hops[1]) = 1
    /\ hops[1][1].op = "WriteByAccept"
    /\ hops[1][1].err = NoErr
    /\ wrappers[1] = <<"Log">>
    /\ reqs[1].accept = << <<"text/plain", ", ", "application/json">> >>
    /\ sinks[1].status = 404
    /\ sinks[1].sent[1][ContentTypeHeader] = <<JSONContentType>>
    /\ sinks[1].body = Doc \o NL

\* no Accept header at all: refused, the sink untouched
C15_WitnessRefused ==
    /\ Len(hops[1]) = 1
    /\ hops[1][1].op = "WriteByAccept"
    /\ hops[1][1].err = ErrInvalidAccept
    /\ reqs[1].accept = << <<>> >>
    /\ sinks[1] = NewSink(TRUE)

\* ---- C16 ---------------------------------------------------------------
\* the status a writer should hold after the calls cs of its caller, when a
\* Flush on a writer without status counts as WriteHeader(200) iff flushing
RECURSIVE StatusAfter(_, _)
StatusAfter(cs, flushing) ==
    IF cs = <<>> THEN 0
    ELSE LET prev == StatusAfter(Front(cs), flushing)
             c == cs[Len(cs)]
         IN  IF c.op = "WriteHeader" THEN c.arg
             ELSE IF prev # 0 THEN prev
             ELSE IF c.op = "Write" \/ flushing THEN StatusOK
             ELSE 0

\* the codes of the WriteHeader calls in a call history
Codes(cs) ==
    LET wh == SelectSeq(cs, LAMBDA c : c.op = "WriteHeader")
    IN  [i \in 1..Len(wh) |-> wh[i].arg]

\* every WriteHeader a writer ran, its own implicit ones included, reached
\* the writer it wraps, in the same order
Forwarded(a) ==
    LET u == rws[a].under
    IN  IF u < 0
        THEN IsPrefix(Codes(rws[a].calls), sinks[-u].whCalls)
        ELSE Codes(rws[a].calls) = Codes(CallerCalls(rws[u]))

NewWriteCounts(a) ==
    LET ws == SelectSeq(NewCalls(a), LAMBDA c : c.op = "Write")
    IN  [i \in 1..Len(ws) |-> ws[i].arg]

SizeStep ==
    /\ Len(rws') >= Len(rws)
    /\ \A a \in 1..Len(rws') :
           IF a > Len(rws)
           THEN Size(Store(rws', sinks'), a) = 0
           ELSE LET grown == Size(Store(rws', sinks'), a) - Size(TheStore, a)
                    u == rws[a].under
                IN  /\ grown >= 0
                    /\ rws'[a].under = u
                    /\ grown = SumSeq(NewWriteCounts(a))
                    /\ NewWriteCounts(a) = <<>> => grown = 0
                    /\ NewWriteCounts(a) # <<>> =>
                           IF u < 0
                           THEN grown = Len(sinks'[-u].body) - Len(sinks[-u].body)
                           ELSE grown = Size(Store(rws', sinks'), u) - Size(TheStore, u)

\* C17: Size() of a responseWriter is 0 when the writer is created and never
\* decreases; WriteHeader and Flush leave it unchanged, and only Write
\* changes it, by exactly the count the underlying writer returned.
C17_SizeCountsReturnedBytes == [][SizeStep]_vars

\* a Write that failed after one byte, then WriteHeader and Flush: Size() is 1
C17_Witness ==
    /\ Len(rws) = 1
    /\ Len(CallerCalls(rws[1])) = 3
    /\ CallerCalls(rws[1])[1] = Call("Write", Len(Payload) - 1, FALSE)
    /\ CallerCalls(rws[1])[2].op = "WriteHeader"
    /\ CallerCalls(rws[1])[3].op = "Flush"
    /\ Size(TheStore, 1) = Len(Payload) - 1
    /\ Len(sinks[1].body) = Len(Payload) - 1

\* ---- C18 ---------------------------------------------------------------
\* the layers of q's chain that have returned to their caller
LayersReturned(q) == {i \in 1..Len(trace[q]) : trace[q][i].ev = "after"}

\* C18: in a chain of Error, Log and Audit decorators of any order and
\* length, the error the base handler returned is what every layer returns
\* to its caller, up to the outermost one: no layer turns it into nil or into
\* another error. Only the closure Handler builds drops it, after the
\* outermost layer has returned it.
C18_ErrorReturnedByEveryLayer ==
    /\ [](\A q \in AllReqs :
             HandlerReturned(q) =>
                 /\ err[q] = HandlerErr(q)
                 /\ Done(q) => Cardinality(LayersReturned(q)) = Len(chain[q]))
    /\ [][\A q \in AllReqs :
             (pc[q] = "run" /\ dir[q] = "ret" /\ pos'[q] = pos[q] - 1) =>
                 err'[q] = err[q]]_vars

\* "boom" came back through Audit, Log and Error, the outermost
C18_Witness ==
    /\ Done(1)
    /\ wrappers[1] = <<"Audit", "Log", "Error">>
    /\ HandlerErr(1) = <<boom>>
    /\ err[1] = <<boom>>
    /\ Cardinality(LayersReturned(1)) = 4

\* ---- C19 ---------------------------------------------------------------
\* the status the client receives: the one the sink sent, or the 200 the
\* server sends when the handler returns without having sent one
SentStatus(q) == IF sinks[q].status = 0 THEN StatusOK ELSE sinks[q].status

\* C19: for a request through Audit, the status in the Response event Audit
\* logs is the status of the response sent to the client; when the inner
\* handler returns an error without writing, that is the status text of 500.
C19_AuditResponseEventCarriesSentStatus ==
    \A q \in AllReqs :
        (Done(q) /\ wrappers[q] = <<"Audit">>) =>
            /\ Len(LogEvents("Response")) = 1
            /\ LogEvents("Response")[1].status = StatusText(SentStatus(q))
            /\ (HandlerWroteNothing(q) /\ HandlerErr(q) # NoErr) =>
                   LogEvents("Response")[1].status = StatusText(StatusInternalServerError)

\* ---- C20 ---------------------------------------------------------------
\* request q was served by adapter a around a handler that wrote nothing and
\* returned an error
FailedUnder(q, a) ==
    /\ Done(q)
    /\ wrappers[q] = <<a>>
    /\ HandlerWroteNothing(q)
    /\ HandlerErr(q) # NoErr

\* C20: when the handler returns an error without writing,
\* ErrorHandler.ServeHTTP sends a 500 response with the error's message,
\* while LogHandler.ServeHTTP and AuditHandler.ServeHTTP translate nothing:
\* they write no status and no body (AuditHandler sets only the two id
\* headers).
C20_OnlyErrorHandlerTranslates ==
    \A q \in AllReqs :
        /\ FailedUnder(q, "ErrorHandler") =>
               /\ sinks[q].whCalls = <<StatusInternalServerError>>
               /\ sinks[q].status = StatusInternalServerError
               /\ sinks[q].writes = <<HandlerErr(q)[1] \o NL>>
               /\ sinks[q].werrs = 0 => Contains(sinks[q].body, HandlerErr(q)[1])
        /\ FailedUnder(q, "LogHandler") =>
               sinks[q] = NewSink(sinks[q].flusher)
        /\ FailedUnder(q, "AuditHandler") =>
               /\ sinks[q].status = 0 /\ sinks[q].whCalls = <<>>
               /\ sinks[q].body = <<>> /\ sinks[q].writes = <<>>
               /\ sinks[q].sent = <<>>
               /\ \A h \in HeaderNames :
                      sinks[q].header[h] # <<>> <=>
                          h \in {RequestIDHeader, RequestContextHeader}
               /\ sinks[q].header[RequestContextHeader] = <<inbound[q]>>

\* AuditHandler around a handler that failed with "boom": the two id headers
\* are set, no status and no body were written
C20_Witness ==
    /\ FailedUnder(1, "AuditHandler")
    /\ HandlerErr(1) = <<boom>>
    /\ sinks[1].status = 0
    /\ sinks[1].body = <<>>
    /\ sinks[1].header[RequestIDHeader] = <<"u1">>
    /\ EventNames(log) = <<"Request", "RequestErr", "Response">>

\* ErrorHandler around the same handler: 500 and the message
C20_WitnessErrorHandler ==
    /\ FailedUnder(1, "ErrorHandler")
    /\ HandlerErr(1) = <<boom>>
    /\ sinks[1].status = StatusInternalServerError
    /\ sinks[1].body = boom \o NL

====
